---- MODULE Spec2Model ----
(***************************************************************************)
(* Quiz backend: grading of a submission against the answer key read from  *)
(* the relational store, transactional persistence of the graded result,   *)
(* and the read-only detail view.                                          *)
(*                                                                         *)
(* Conventions                                                             *)
(*   - a Go string that is parsed (an id token) is a sequence of           *)
(*     one-character strings, so that strconv.Atoi / strconv.Itoa are       *)
(*     computed, not assumed; other strings are TLA+ strings;              *)
(*   - a nullable column or a Go pointer is a set with at most one         *)
(*     element: {} is NULL / nil, {v} is the value v;                      *)
(*   - a float64 or NUMERIC value is an exact rational [n, d] (d > 0);     *)
(*     binary floating-point representation error is not modelled.         *)
(***************************************************************************)
EXTENDS Integers, Sequences, FiniteSets, TLC

\* ------------------------------------------------------------------------
\* Bounds
\* ------------------------------------------------------------------------

\* longest answers list of one submit request
MaxAnswers == 2

\* largest value of the wall clock read by time.Now()
MaxClock == 1

\* ------------------------------------------------------------------------
\* Generic helpers
\* ------------------------------------------------------------------------

EmptyMap == [x \in {} |-> 0]

MapPut(m, k, v) == [x \in (DOMAIN m) \cup {k} |-> IF x = k THEN v ELSE m[x]]

Append2(s, e) == s \o <<e>>

\* all orderings of a finite set, as sequences
RECURSIVE Perms(_)
Perms(S) ==
    IF S = {} THEN {<<>>}
    ELSE UNION {{<<x>> \o rest : rest \in Perms(S \ {x})} : x \in S}

\* all sequences over S of length at most n
SeqsUpTo(S, n) == UNION {[1..k -> S] : k \in 0..n}

\* rationals
Rat(n, d) == [n |-> n, d |-> d]

RatEq(a, b) == a.n * b.d = b.n * a.d

RatLeq(a, b) == a.n * b.d <= b.n * a.d

\* ------------------------------------------------------------------------
\* strconv.Atoi / strconv.Itoa
\* ------------------------------------------------------------------------

Digits == <<"0", "1", "2", "3", "4", "5", "6", "7", "8", "9">>

IsDigit(c) == \E i \in 1..10 : Digits[i] = c

DigitVal(c) == (CHOOSE i \in 1..10 : Digits[i] = c) - 1

RECURSIVE DigitsValue(_, _, _)
DigitsValue(s, i, acc) ==
    IF i > Len(s) THEN acc
    ELSE DigitsValue(s, i + 1, acc * 10 + DigitVal(s[i]))

\* strconv.Atoi: optional sign, then one or more decimal digits
Atoi(s) ==
    LET signed == Len(s) > 0 /\ s[1] \in {"+", "-"}
        body   == IF signed THEN Tail(s) ELSE s
    IN  IF Len(body) = 0 \/ \E i \in 1..Len(body) : ~IsDigit(body[i])
        THEN [ok |-> FALSE, val |-> 0]
        ELSE [ok |-> TRUE,
              val |-> IF signed /\ s[1] = "-"
                      THEN 0 - DigitsValue(body, 1, 0)
                      ELSE DigitsValue(body, 1, 0)]

RECURSIVE NatToDigits(_)
NatToDigits(n) ==
    IF n < 10 THEN <<Digits[n + 1]>>
    ELSE NatToDigits(n \div 10) \o <<Digits[(n % 10) + 1]>>

\* strconv.Itoa: canonical decimal form
Itoa(n) == IF n < 0 THEN <<"-">> \o NatToDigits(0 - n) ELSE NatToDigits(n)

\* ------------------------------------------------------------------------
\* Stored data read by the grading core
\* ------------------------------------------------------------------------

\* rows of table utilizadores (ids)
utilizadores == {1, 2}

\* rows of table quizzes (ids); quiz 2 has no question
quizzes == {1, 2}

Pergunta(id, assunto, quizz_id) ==
    [id |-> id, assunto |-> assunto, quizz_id |-> quizz_id]

Resposta(id, corpo, correta, pergunta_id) ==
    [id |-> id, corpo |-> corpo, correta |-> correta, pergunta_id |-> pergunta_id]

\* a quiz of three questions, each with exactly one correct option and
\* distinct option texts; question 2 has a NULL subject, question 3 an
\* empty one
QuizOfThree ==
    [perguntas |-> {Pergunta(1, {"geo"}, 1), Pergunta(2, {}, 1), Pergunta(3, {""}, 1)},
     respostas |-> {Resposta(1, "a", TRUE, 1), Resposta(2, "b", FALSE, 1),
                    Resposta(3, "b", TRUE, 2), Resposta(4, "a", TRUE, 3)}]

\* a quiz of one well-formed question
QuizOfOne ==
    [perguntas |-> {Pergunta(1, {"geo"}, 1)},
     respostas |-> {Resposta(1, "a", TRUE, 1), Resposta(2, "b", FALSE, 1)}]

\* data the schema admits but the key-building assumes away: question 1
\* has two options of the same text and two options flagged correct,
\* question 2 has no option flagged correct, question 3 has no option
QuizIrregular ==
    [perguntas |-> {Pergunta(1, {"geo"}, 1), Pergunta(2, {}, 1), Pergunta(3, {"alg"}, 1)},
     respostas |-> {Resposta(1, "a", TRUE, 1), Resposta(2, "a", FALSE, 1),
                    Resposta(3, "b", TRUE, 1), Resposta(4, "a", FALSE, 2)}]

Fixtures == {QuizOfThree, QuizOfOne, QuizIrregular}

\* ------------------------------------------------------------------------
\* Store.GetQuizAnswers: the answer key
\* ------------------------------------------------------------------------

\* the rows of the key query: one per (question, option) of the quiz
KeyRows(ps, rs, quizID) ==
    {[QuestionID |-> p.id, QuestionAssunto |-> p.assunto, RespostaID |-> r.id,
      CorpoResposta |-> r.corpo, Correta |-> r.correta] :
        <<p, r>> \in {pr \in ps \X rs :
                        pr[1].id = pr[2].pergunta_id /\ pr[1].quizz_id = quizID}}

\* the entry created the first time a question is seen
NewQuestionAnswerInfo(row) ==
    [QuestionID        |-> row.QuestionID,
     Assunto           |-> IF row.QuestionAssunto # {}
                           THEN CHOOSE a \in row.QuestionAssunto : TRUE
                           ELSE "",
     CorrectOptionText |-> "",
     OptionsMap        |-> EmptyMap]

\* the key used to store a question in the map
KeyOf(questionID) == Itoa(questionID)

\* faulty variant of AddKeyRow: the first row seen wins
AddKeyRowFirstWins(answerMap, row) ==
    LET qIDStr == KeyOf(row.QuestionID)
        info   == IF qIDStr \in DOMAIN answerMap
                  THEN answerMap[qIDStr]
                  ELSE NewQuestionAnswerInfo(row)
        info2  == [info EXCEPT
                     !.OptionsMap =
                         IF row.CorpoResposta \in DOMAIN @ THEN @
                         ELSE MapPut(@, row.CorpoResposta, row.RespostaID),
                     !.CorrectOptionText =
                         IF row.Correta /\ @ = "" THEN row.CorpoResposta ELSE @]
    IN  MapPut(answerMap, qIDStr, info2)

\* one iteration of the loop over the rows
AddKeyRow(answerMap, row) ==
    LET qIDStr == KeyOf(row.QuestionID)
        info   == IF qIDStr \in DOMAIN answerMap
                  THEN answerMap[qIDStr]
                  ELSE NewQuestionAnswerInfo(row)
        info2  == [info EXCEPT
                     !.OptionsMap = MapPut(@, row.CorpoResposta, row.RespostaID),
                     !.CorrectOptionText =
                         IF row.Correta THEN row.CorpoResposta ELSE @]
    IN  MapPut(answerMap, qIDStr, info2)

RECURSIVE BuildAnswerMap(_, _, _)
BuildAnswerMap(rows, i, answerMap) ==
    IF i > Len(rows) THEN answerMap
    ELSE BuildAnswerMap(rows, i + 1, AddKeyRow(answerMap, rows[i]))

\* the keys GetQuizAnswers can return: the query states no ORDER BY, so the
\* rows arrive in any order
QuizAnswers(ps, rs, quizID) ==
    {BuildAnswerMap(rows, 1, EmptyMap) : rows \in Perms(KeyRows(ps, rs, quizID))}

\* ------------------------------------------------------------------------
\* QuizService.SubmitAnswers: the grading loop
\* ------------------------------------------------------------------------

UserAnswer(q, o) == [QuestionID |-> q, SelectedOption |-> o]

\* whether the loop skips the answer (both `continue` branches)
Skipped(answerMap, userAnswer) ==
    \/ ~Atoi(userAnswer.QuestionID).ok
    \/ userAnswer.QuestionID \notin DOMAIN answerMap

IsCorrect(questionInfo, userAnswer) ==
    userAnswer.SelectedOption = questionInfo.CorrectOptionText

\* faulty variant of SelectedAnswerID: the zero id, not nil, for a text
\* that is no option
SelectedAnswerIDZeroForUnknown(questionInfo, userAnswer) ==
    IF userAnswer.SelectedOption \in DOMAIN questionInfo.OptionsMap
    THEN {questionInfo.OptionsMap[userAnswer.SelectedOption]}
    ELSE {0}

SelectedAnswerID(questionInfo, userAnswer) ==
    IF userAnswer.SelectedOption \in DOMAIN questionInfo.OptionsMap
    THEN {questionInfo.OptionsMap[userAnswer.SelectedOption]}
    ELSE {}

GradeInit(answerMap) ==
    [correctCount   |-> 0,
     totalCount     |-> Cardinality(DOMAIN answerMap),
     respostasDadas |-> <<>>,
     dificuldades   |-> <<>>]

\* faulty variant of GradeKnownAnswer: a difficulty entry is appended for
\* every graded answer, the correct ones too
GradeKnownAnswerAlwaysDifficulty(g, answerMap, userAnswer) ==
    LET questionInfo == answerMap[userAnswer.QuestionID]
        isCorrect    == IsCorrect(questionInfo, userAnswer)
    IN  [g EXCEPT
           !.correctCount = IF isCorrect THEN @ + 1 ELSE @,
           !.dificuldades = Append2(@, [Assunto |-> {questionInfo.Assunto}]),
           !.respostasDadas =
               Append2(@, [PerguntaID         |-> Atoi(userAnswer.QuestionID).val,
                           CorretaNaSubmissao |-> {isCorrect},
                           RespostaID         |->
                               SelectedAnswerID(questionInfo, userAnswer)])]

\* the body of the loop for an answer that is not skipped
GradeKnownAnswer(g, answerMap, userAnswer) ==
    LET questionInfo == answerMap[userAnswer.QuestionID]
        isCorrect    == IsCorrect(questionInfo, userAnswer)
    IN  [g EXCEPT
           !.correctCount = IF isCorrect THEN @ + 1 ELSE @,
           !.dificuldades =
               IF isCorrect THEN @
               ELSE Append2(@, [Assunto |-> {questionInfo.Assunto}]),
           !.respostasDadas =
               Append2(@, [PerguntaID         |-> Atoi(userAnswer.QuestionID).val,
                           CorretaNaSubmissao |-> {isCorrect},
                           RespostaID         |->
                               SelectedAnswerID(questionInfo, userAnswer)])]

\* faulty variant of GradeAnswer: a skipped answer leaves a difficulty entry
GradeAnswerFlaggingSkipped(g, answerMap, userAnswer) ==
    IF Skipped(answerMap, userAnswer)
    THEN [g EXCEPT !.dificuldades = Append2(@, [Assunto |-> {""}])]
    ELSE GradeKnownAnswer(g, answerMap, userAnswer)

\* one iteration of the loop over req.Answers
GradeAnswer(g, answerMap, userAnswer) ==
    IF Skipped(answerMap, userAnswer) THEN g
    ELSE GradeKnownAnswer(g, answerMap, userAnswer)

RECURSIVE GradeFrom(_, _, _, _)
GradeFrom(g, answerMap, answers, i) ==
    IF i > Len(answers) THEN g
    ELSE GradeFrom(GradeAnswer(g, answerMap, answers[i]), answerMap, answers, i + 1)

Grade(answerMap, answers) == GradeFrom(GradeInit(answerMap), answerMap, answers, 1)

\* faulty variant of Score: the division done on integers
ScoreIntegerDivision(correctCount, totalCount) ==
    IF totalCount > 0 THEN Rat((correctCount \div totalCount) * 100, 1) ELSE Rat(0, 1)

\* score = (correctCount / totalCount) * 100, or 0 for an empty key
Score(correctCount, totalCount) ==
    IF totalCount > 0 THEN Rat(correctCount * 100, totalCount) ELSE Rat(0, 1)

\* ------------------------------------------------------------------------
\* The store's column types and constraints (schema)
\* ------------------------------------------------------------------------

\* pontuacao NUMERIC(5, 2): the value in hundredths, rounded half up
Numeric52(x) == (2 * 100 * x.n + x.d) \div (2 * x.d)

\* NUMERIC(5, 2) holds absolute values below 10^3
Numeric52Fits(x) == Numeric52(x) < 100000

\* CHECK (pontuacao >= 0 AND pontuacao <= 100)
PontuacaoCheck(hundredths) == hundredths >= 0 /\ hundredths <= 10000

\* UNIQUE (utilizador_id, quizz_id, datahora)
SameSubmissaoKey(a, b) ==
    /\ a.utilizador_id = b.utilizador_id
    /\ a.quizz_id = b.quizz_id
    /\ a.datahora = b.datahora

\* UNIQUE (submissao_id, pergunta_id)
SameRespostaDadaKey(a, b) ==
    a.submissao_id = b.submissao_id /\ a.pergunta_id = b.pergunta_id

\* ------------------------------------------------------------------------
\* State
\* ------------------------------------------------------------------------

\* the request tasks
Procs == {1, 2}

VARIABLES
    perguntas,        \* table perguntas
    respostas,        \* table respostas
    submissao,        \* table submissao, committed rows
    respostas_dadas,  \* table respostas_dadas, committed rows
    dificuldades,     \* table dificuldades, committed rows
    serial,           \* next value of each table's SERIAL id
    clock,            \* wall clock read by time.Now()
    pc,               \* pc[p]: where request task p stands
    req,              \* req[p]: the SubmissionRequest of task p
    local,            \* local[p]: local variables of SubmitAnswers
    tx,               \* tx[p]: the transaction of SaveSubmissionStats
    resp,             \* resp[p]: what the handler answered
    detail,           \* the answer of GetSubmissionDetails, when it is the last step
    stats,            \* the answer of GetUserStats, when it is the last step
    ativo,            \* column ativo of table quizzes
    reply             \* the answer of GetUserSubmissions or DeactivateQuiz,
                      \* when it is the last step

vars == <<perguntas, respostas, submissao, respostas_dadas, dificuldades,
          serial, clock, pc, req, local, tx, resp, detail, stats, ativo, reply>>

db == <<perguntas, respostas, ativo>>

committed == <<submissao, respostas_dadas, dificuldades>>

NoReq == [QuizID |-> <<>>, UserID |-> <<>>, Answers |-> <<>>]

NoLocal == [quizID |-> 0, userID |-> 0, answerMap |-> EmptyMap,
            grade |-> GradeInit(EmptyMap), score |-> Rat(0, 1),
            dataHora |-> 0, savedSub |-> {}]

NoTx == [open |-> FALSE, submissao |-> {}, respostas_dadas |-> {},
         dificuldades |-> {}]

NoResp == [status |-> 0]

NoDetail == [status |-> 0]

NoStats == [status |-> 0]

NoReply == [status |-> 0]

InitWith(fixtures) ==
    /\ \E f \in fixtures : perguntas = f.perguntas /\ respostas = f.respostas
    /\ submissao = {}
    /\ respostas_dadas = {}
    /\ dificuldades = {}
    /\ serial = [submissao |-> 1, respostas_dadas |-> 1, dificuldades |-> 1]
    /\ clock = 0
    /\ pc = [p \in Procs |-> "idle"]
    /\ req = [p \in Procs |-> NoReq]
    /\ local = [p \in Procs |-> NoLocal]
    /\ tx = [p \in Procs |-> NoTx]
    /\ resp = [p \in Procs |-> NoResp]
    /\ detail = NoDetail
    /\ stats = NoStats
    /\ ativo = [q \in quizzes |-> TRUE]
    /\ reply = NoReply

Init == InitWith(Fixtures)

InitConc == InitWith({QuizOfOne})

\* ------------------------------------------------------------------------
\* Requests
\* ------------------------------------------------------------------------

QuizTokens == {<<"1">>, <<"2">>, <<"3">>, <<"x">>}

UserTokens == {<<"1">>, <<"9">>, <<"x">>}

\* answers of a request: canonical and non-canonical tokens of questions
\* of the quiz, an unparseable token, texts of stored options and a text
\* of none
AnswerPool ==
    {UserAnswer(<<"1">>, "a"), UserAnswer(<<"1">>, "b"), UserAnswer(<<"1">>, ""),
     UserAnswer(<<"2">>, "a"), UserAnswer(<<"3">>, "a"),
     UserAnswer(<<"0", "1">>, "a"), UserAnswer(<<"x">>, "a")}

Requests ==
    [QuizID : QuizTokens, UserID : UserTokens,
     Answers : SeqsUpTo(AnswerPool, MaxAnswers)]

\* the requests of the concurrent specification
SmallRequests ==
    [QuizID : {<<"1">>}, UserID : {<<"1">>, <<"2">>, <<"9">>},
     Answers : {<<UserAnswer(<<"1">>, "a")>>,
                <<UserAnswer(<<"1">>, "b")>>,
                <<UserAnswer(<<"1">>, "a"), UserAnswer(<<"1">>, "b")>>,
                <<UserAnswer(<<"1">>, "a"), UserAnswer(<<"1">>, "a")>>}]

\* ------------------------------------------------------------------------
\* ApiHandlers.SubmitAnswersHandler and the head of QuizService.SubmitAnswers
\* ------------------------------------------------------------------------

\* faulty variant of HandlerRejects: an empty answers list is let through
HandlerRejectsWithoutAnswersCheck(r) == r.QuizID = <<>> \/ r.UserID = <<>>

\* the handler's checks of the decoded body
HandlerRejects(r) ==
    r.QuizID = <<>> \/ r.UserID = <<>> \/ Len(r.Answers) = 0

\* faulty variant of IdsInvalid: the error of the user id conversion is
\* dropped
IdsInvalidQuizOnly(r) == ~Atoi(r.QuizID).ok

\* the service's conversion of the ids
IdsInvalid(r) == ~Atoi(r.QuizID).ok \/ ~Atoi(r.UserID).ok

Reply(p, r) == resp' = [resp EXCEPT ![p] = r]

ErrorReply(status, err) == [status |-> status, err |-> err]

\* faulty variant of InternalError: an error of the store taken for the
\* not-found condition
InternalErrorAsNotFound(step, cause) ==
    [status |-> 404, err |-> "ErrNotFound", step |-> step, cause |-> cause]

\* an error of the store, wrapped by the store and by the service with the
\* step that failed; the handler answers 500
InternalError(step, cause) ==
    [status |-> 500, err |-> "Internal", step |-> step, cause |-> cause]

\* faulty variant of KeyMissing: the empty key is never noticed
KeyMissingNever(answerMap) == FALSE

\* whether SubmitAnswers takes the key for missing
KeyMissing(answerMap) == Cardinality(DOMAIN answerMap) = 0

SubmitAnswersHandler(p, requests) ==
    /\ pc[p] = "idle"
    /\ \E r \in requests :
         /\ req' = [req EXCEPT ![p] = r]
         /\ IF HandlerRejects(r)
            THEN /\ Reply(p, ErrorReply(400, "BadRequest"))
                 /\ pc' = [pc EXCEPT ![p] = "done"]
                 /\ UNCHANGED local
            ELSE IF IdsInvalid(r)
            THEN /\ Reply(p, ErrorReply(400, "ErrInvalidInput"))
                 /\ pc' = [pc EXCEPT ![p] = "done"]
                 /\ UNCHANGED local
            ELSE /\ local' = [local EXCEPT ![p] =
                                [NoLocal EXCEPT !.quizID = Atoi(r.QuizID).val,
                                                !.userID = Atoi(r.UserID).val]]
                 /\ pc' = [pc EXCEPT ![p] = "GetQuizAnswers"]
                 /\ UNCHANGED resp
    /\ detail' = NoDetail
    /\ stats' = NoStats
    /\ reply' = NoReply
    /\ UNCHANGED <<db, committed, serial, clock, tx>>

\* the key is read (one SELECT, outside any transaction), then the answers
\* are graded and the Submissao to save is prepared
GetQuizAnswers(p) ==
    /\ pc[p] = "GetQuizAnswers"
    /\ \E answerMap \in QuizAnswers(perguntas, respostas, local[p].quizID) :
         IF KeyMissing(answerMap)
         THEN /\ Reply(p, ErrorReply(404, "ErrNotFound"))
              /\ pc' = [pc EXCEPT ![p] = "done"]
              /\ UNCHANGED local
         ELSE LET g == Grade(answerMap, req[p].Answers)
              IN  /\ local' = [local EXCEPT ![p] =
                                 [@ EXCEPT !.answerMap = answerMap,
                                           !.grade = g,
                                           !.score = Score(g.correctCount, g.totalCount),
                                           !.dataHora = clock]]
                  /\ pc' = [pc EXCEPT ![p] = "BeginTxx"]
                  /\ UNCHANGED resp
    /\ detail' = NoDetail
    /\ stats' = NoStats
    /\ reply' = NoReply
    /\ UNCHANGED <<db, committed, serial, clock, req, tx>>

\* ------------------------------------------------------------------------
\* Store.SaveSubmissionStats: one transaction
\* ------------------------------------------------------------------------

\* faulty variant of Fail: the error is returned without rolling the
\* transaction back
FailWithoutRollback(p, cause) ==
    /\ tx' = tx
    /\ Reply(p, InternalError(pc[p], cause))
    /\ pc' = [pc EXCEPT ![p] = "done"]

\* the deferred tx.Rollback() on an error return: the uncommitted rows are
\* dropped, the error is returned wrapped, the handler answers 500
Fail(p, cause) ==
    /\ tx' = [tx EXCEPT ![p] = NoTx]
    /\ Reply(p, InternalError(pc[p], cause))
    /\ pc' = [pc EXCEPT ![p] = "done"]

BeginTxx(p) ==
    /\ pc[p] = "BeginTxx"
    /\ tx' = [tx EXCEPT ![p] = [NoTx EXCEPT !.open = TRUE]]
    /\ pc' = [pc EXCEPT ![p] = "InsertSubmissao"]
    /\ detail' = NoDetail
    /\ stats' = NoStats
    /\ reply' = NoReply
    /\ UNCHANGED <<db, committed, serial, clock, req, local, resp>>

\* the row the INSERT ... RETURNING * produces
SubmissaoRow(id, l) ==
    [id            |-> id,
     datahora      |-> l.dataHora,
     pontuacao     |-> Numeric52(l.score),
     utilizador_id |-> l.userID,
     quizz_id      |-> l.quizID]

\* the error of the INSERT into submissao, "" for none, given the committed
\* rows: the column type, then the CHECK, then the unique index, then the
\* foreign keys
SubmissaoError(row, l, rows) ==
    IF ~Numeric52Fits(l.score) THEN "numeric_value_out_of_range"
    ELSE IF ~PontuacaoCheck(row.pontuacao) THEN "check_violation"
    ELSE IF \E s \in rows : SameSubmissaoKey(s, row) THEN "unique_violation"
    ELSE IF row.utilizador_id \notin utilizadores \/ row.quizz_id \notin quizzes
    THEN "foreign_key_violation"
    ELSE ""

\* where SaveSubmissionStats goes after `done` of the GivenAnswer inserts
\* and `difs` of the difficulty inserts
NextInsert(l, done, difs) ==
    IF done < Len(l.grade.respostasDadas) THEN "InsertRespostaDada"
    ELSE IF difs < Len(l.grade.dificuldades) THEN "InsertDificuldade"
    ELSE "Commit"

InsertSubmissao(p) ==
    LET row == SubmissaoRow(serial.submissao, local[p])
        err == SubmissaoError(row, local[p], submissao)
    IN  /\ pc[p] = "InsertSubmissao"
        \* an uncommitted row of another transaction with the same unique
        \* key makes the INSERT wait for that transaction to end
        /\ \A q \in Procs \ {p} :
             \A s \in tx[q].submissao : ~SameSubmissaoKey(s, row)
        /\ serial' = [serial EXCEPT !.submissao = @ + 1]
        /\ IF err # ""
           THEN Fail(p, err) /\ UNCHANGED local
           ELSE /\ tx' = [tx EXCEPT ![p].submissao = {row}]
                /\ local' = [local EXCEPT ![p].savedSub = {row}]
                /\ pc' = [pc EXCEPT ![p] = NextInsert(local[p], 0, 0)]
                /\ UNCHANGED resp
        /\ detail' = NoDetail
        /\ stats' = NoStats
        /\ reply' = NoReply
        /\ UNCHANGED <<db, committed, clock, req>>

SubmissionID(l) == (CHOOSE s \in l.savedSub : TRUE).id

RespostaDadaRow(id, submissionID, dada) ==
    [id                   |-> id,
     submissao_id         |-> submissionID,
     pergunta_id          |-> dada.PerguntaID,
     resposta_id          |-> dada.RespostaID,
     correta_na_submissao |-> dada.CorretaNaSubmissao]

\* faulty variant of RespostaDadaError: no unique index on
\* (submissao_id, pergunta_id)
RespostaDadaErrorWithoutUnique(row, rows, ps, rs) ==
    IF \/ row.pergunta_id \notin {q.id : q \in ps}
       \/ \E a \in row.resposta_id : a \notin {r.id : r \in rs}
    THEN "foreign_key_violation"
    ELSE ""

\* the error of the INSERT into respostas_dadas, "" for none, given the rows
\* the transaction sees
RespostaDadaError(row, rows, ps, rs) ==
    IF \E d \in rows : SameRespostaDadaKey(d, row) THEN "unique_violation"
    ELSE IF \/ row.pergunta_id \notin {q.id : q \in ps}
            \/ \E a \in row.resposta_id : a \notin {r.id : r \in rs}
    THEN "foreign_key_violation"
    ELSE ""

InsertRespostaDada(p) ==
    LET done == Cardinality(tx[p].respostas_dadas)
        row  == RespostaDadaRow(serial.respostas_dadas, SubmissionID(local[p]),
                                local[p].grade.respostasDadas[done + 1])
        err  == RespostaDadaError(row, respostas_dadas \cup tx[p].respostas_dadas,
                                  perguntas, respostas)
    IN  /\ pc[p] = "InsertRespostaDada"
        /\ serial' = [serial EXCEPT !.respostas_dadas = @ + 1]
        /\ IF err # ""
           THEN Fail(p, err)
           ELSE /\ tx' = [tx EXCEPT ![p].respostas_dadas = @ \cup {row}]
                /\ pc' = [pc EXCEPT ![p] = NextInsert(local[p], done + 1, 0)]
                /\ UNCHANGED resp
        /\ detail' = NoDetail
        /\ stats' = NoStats
        /\ reply' = NoReply
        /\ UNCHANGED <<db, committed, clock, req, local>>

DificuldadeRow(id, submissionID, dif) ==
    [id |-> id, assunto |-> dif.Assunto, submissao_id |-> submissionID]

\* faulty variant of ExecDificuldade: the INSERT runs on the connection
\* pool, outside the transaction
ExecDificuldadeOutsideTx(p, row) ==
    /\ dificuldades' = dificuldades \cup {row}
    /\ UNCHANGED <<tx, submissao, respostas_dadas>>

\* tx.ExecContext of the INSERT into dificuldades: the row is written in
\* the transaction
ExecDificuldade(p, row) ==
    /\ tx' = [tx EXCEPT ![p].dificuldades = @ \cup {row}]
    /\ UNCHANGED committed

InsertDificuldade(p) ==
    LET difs == Cardinality(tx[p].dificuldades)
        row  == DificuldadeRow(serial.dificuldades, SubmissionID(local[p]),
                               local[p].grade.dificuldades[difs + 1])
    IN  /\ pc[p] = "InsertDificuldade"
        /\ serial' = [serial EXCEPT !.dificuldades = @ + 1]
        /\ ExecDificuldade(p, row)
        /\ pc' = [pc EXCEPT ![p] =
                    NextInsert(local[p], Len(local[p].grade.respostasDadas), difs + 1)]
        /\ detail' = NoDetail
        /\ stats' = NoStats
        /\ reply' = NoReply
        /\ UNCHANGED <<db, clock, req, local, resp>>

\* step 8 of SubmitAnswers: the response built from the saved row
SubmissionResponse(l) ==
    [status       |-> 200,
     SubmissionID |-> SubmissionID(l),
     Score        |-> Rat((CHOOSE s \in l.savedSub : TRUE).pontuacao, 100),
     CorrectCount |-> l.grade.correctCount,
     TotalCount   |-> l.grade.totalCount]

Commit(p) ==
    /\ pc[p] = "Commit"
    /\ submissao' = submissao \cup tx[p].submissao
    /\ respostas_dadas' = respostas_dadas \cup tx[p].respostas_dadas
    /\ dificuldades' = dificuldades \cup tx[p].dificuldades
    /\ tx' = [tx EXCEPT ![p] = NoTx]
    /\ Reply(p, SubmissionResponse(local[p]))
    /\ pc' = [pc EXCEPT ![p] = "done"]
    /\ detail' = NoDetail
    /\ stats' = NoStats
    /\ reply' = NoReply
    /\ UNCHANGED <<db, serial, clock, req, local>>

StoreCalls ==
    {"GetQuizAnswers", "BeginTxx", "InsertSubmissao", "InsertRespostaDada",
     "InsertDificuldade", "Commit"}

\* the store call about to run returns an error (cancelled context, lost
\* connection): every such return leaves through the deferred rollback
StoreError(p) ==
    /\ pc[p] \in StoreCalls
    /\ Fail(p, "canceled")
    /\ detail' = NoDetail
    /\ stats' = NoStats
    /\ reply' = NoReply
    /\ UNCHANGED <<db, committed, serial, clock, req, local>>

\* time passes
Tick ==
    /\ clock < MaxClock
    /\ clock' = clock + 1
    /\ detail' = NoDetail
    /\ stats' = NoStats
    /\ reply' = NoReply
    /\ UNCHANGED <<db, committed, serial, pc, req, local, tx, resp>>

\* ------------------------------------------------------------------------
\* Store.GetSubmissionDetails: the detail view
\* ------------------------------------------------------------------------

\* faulty variant of GivenColumns: an inner join
GivenColumnsInnerJoin(rds, s, p) ==
    {[rowid |-> rd.id, resposta_id |-> rd.resposta_id,
      correta_na_submissao |-> rd.correta_na_submissao] :
        rd \in {x \in rds : x.submissao_id = s.id /\ x.pergunta_id = p.id}}

\* the given-answer columns of the LEFT JOIN for one (submission, question):
\* NULLs when the submission has no given answer for the question
GivenColumns(rds, s, p) ==
    LET mine == {rd \in rds : rd.submissao_id = s.id /\ rd.pergunta_id = p.id}
    IN  IF mine = {}
        THEN {[rowid |-> 0, resposta_id |-> {}, correta_na_submissao |-> {}]}
        ELSE {[rowid |-> rd.id, resposta_id |-> rd.resposta_id,
               correta_na_submissao |-> rd.correta_na_submissao] : rd \in mine}

DetailRow(s, p, r, rd) ==
    [SubmissionID       |-> s.id,
     QuizID             |-> s.quizz_id,
     Pontuacao          |-> Rat(s.pontuacao, 100),
     DataHora           |-> s.datahora,
     PerguntaID         |-> p.id,
     Assunto            |-> p.assunto,
     RespostaID         |-> r.id,
     CorpoResposta      |-> r.corpo,
     Correta            |-> r.correta,
     RespostaDadaID     |-> rd.resposta_id,
     CorretaNaSubmissao |-> rd.correta_na_submissao,
     rowid              |-> rd.rowid]

\* faulty variant of DetailRows: without WHERE s.id = $1
DetailRowsOfAnySubmission(subs, rds, ps, rs, submissionID) ==
    UNION {{DetailRow(t[1], t[2], t[3], rd) : rd \in GivenColumns(rds, t[1], t[2])} :
             t \in {u \in subs \X ps \X rs :
                      /\ u[1].quizz_id \in quizzes
                      /\ u[2].quizz_id = u[1].quizz_id
                      /\ u[3].pergunta_id = u[2].id}}

\* the rows of the detail query for one submission id
DetailRows(subs, rds, ps, rs, submissionID) ==
    UNION {{DetailRow(t[1], t[2], t[3], rd) : rd \in GivenColumns(rds, t[1], t[2])} :
             t \in {u \in subs \X ps \X rs :
                      /\ u[1].id = submissionID
                      /\ u[1].quizz_id \in quizzes
                      /\ u[2].quizz_id = u[1].quizz_id
                      /\ u[3].pergunta_id = u[2].id}}

\* ORDER BY p.id, r.id
DetailOrdered(rows) ==
    \A i, j \in 1..Len(rows) :
        (i < j) =>
            \/ rows[i].PerguntaID < rows[j].PerguntaID
            \/ /\ rows[i].PerguntaID = rows[j].PerguntaID
               /\ rows[i].RespostaID <= rows[j].RespostaID

\* faulty variant of NullBoolValue: NULL read as true
NullBoolValueNullIsTrue(b) == b # {FALSE}

\* sql.NullBool.Bool: the value, or false when NULL
NullBoolValue(b) ==
    b = {TRUE}

\* the entry created the first time a question is seen
NewQuestionDetail(row) ==
    [PerguntaID         |-> row.PerguntaID,
     Assunto            |-> row.Assunto,
     Opcoes             |-> <<>>,
     RespostaUtilizador |-> {},
     RespostaCorreta    |-> "",
     Acertou            |-> NullBoolValue(row.CorretaNaSubmissao)]

\* faulty variant of AddDetailRow: the option of the row is taken for the
\* chosen one whenever the question has a given answer with an option id
AddDetailRowAnyGivenOption(perguntasMap, row) ==
    LET d  == IF row.PerguntaID \in DOMAIN perguntasMap
              THEN perguntasMap[row.PerguntaID]
              ELSE NewQuestionDetail(row)
        d2 == [d EXCEPT
                 !.Opcoes = Append2(@, [RespostaID |-> row.RespostaID,
                                        Corpo      |-> row.CorpoResposta]),
                 !.RespostaCorreta =
                     IF row.Correta THEN row.CorpoResposta ELSE @,
                 !.RespostaUtilizador =
                     IF row.RespostaDadaID # {}
                     THEN {row.CorpoResposta} ELSE @]
    IN  MapPut(perguntasMap, row.PerguntaID, d2)

\* one iteration of the loop over the rows
AddDetailRow(perguntasMap, row) ==
    LET d  == IF row.PerguntaID \in DOMAIN perguntasMap
              THEN perguntasMap[row.PerguntaID]
              ELSE NewQuestionDetail(row)
        d2 == [d EXCEPT
                 !.Opcoes = Append2(@, [RespostaID |-> row.RespostaID,
                                        Corpo      |-> row.CorpoResposta]),
                 !.RespostaCorreta =
                     IF row.Correta THEN row.CorpoResposta ELSE @,
                 !.RespostaUtilizador =
                     IF row.RespostaDadaID = {row.RespostaID}
                     THEN {row.CorpoResposta} ELSE @]
    IN  MapPut(perguntasMap, row.PerguntaID, d2)

RECURSIVE BuildPerguntasMap(_, _, _)
BuildPerguntasMap(rows, i, perguntasMap) ==
    IF i > Len(rows) THEN perguntasMap
    ELSE BuildPerguntasMap(rows, i + 1, AddDetailRow(perguntasMap, rows[i]))

\* the final loop ranges over a Go map: the questions leave in any order
PerguntasOut(perguntasMap) ==
    Perms({perguntasMap[k] : k \in DOMAIN perguntasMap})

\* the answers GetSubmissionDetails (service over store) can give
SubmissionDetails(subs, rds, ps, rs, submissionIDStr) ==
    IF ~Atoi(submissionIDStr).ok
    THEN {ErrorReply(400, "ErrInvalidInput")}
    ELSE LET rowset == DetailRows(subs, rds, ps, rs, Atoi(submissionIDStr).val)
         IN  IF rowset = {}
             THEN {ErrorReply(404, "ErrNotFound")}
             ELSE {[status       |-> 200,
                    SubmissionID |-> rows[1].SubmissionID,
                    QuizID       |-> rows[1].QuizID,
                    Pontuacao    |-> rows[1].Pontuacao,
                    DataHora     |-> rows[1].DataHora,
                    Perguntas    |-> out] :
                      <<rows, out>> \in
                         UNION {{<<rws, o>> :
                                   o \in PerguntasOut(BuildPerguntasMap(rws, 1, EmptyMap))} :
                                 rws \in {x \in Perms(rowset) : DetailOrdered(x)}}}

DetailTokens == {<<"1">>, <<"2">>, <<"x">>}

\* the answer is kept beside the submission_id query parameter it answers
GetSubmissionDetails(submissionIDStr) ==
    /\ \E d \in SubmissionDetails(submissao, respostas_dadas, perguntas, respostas,
                                  submissionIDStr) :
         detail' = MapPut(d, "asked", submissionIDStr)
    /\ stats' = NoStats
    /\ reply' = NoReply
    /\ UNCHANGED <<db, committed, serial, clock, pc, req, local, tx, resp>>

\* ------------------------------------------------------------------------
\* Store.GetUserStats: the aggregated statistics of a user
\* ------------------------------------------------------------------------

\* faulty variant of StatsRows: without WHERE s.utilizador_id = $1
StatsRowsOfAnyUser(subs, rds, userID) ==
    UNION {{[id |-> s.id, pontuacao |-> s.pontuacao, rd_id |-> {x.id},
             correta_na_submissao |-> x.correta_na_submissao] :
               x \in {y \in rds : y.submissao_id = s.id}} :
             s \in subs}

\* the rows of submissao LEFT JOIN respostas_dadas of one user: one row per
\* GivenAnswer of each submission, one row of NULLs for a submission
\* without GivenAnswer
StatsRows(subs, rds, userID) ==
    UNION {{[id |-> s.id, pontuacao |-> s.pontuacao, rd_id |-> rd.rd_id,
             correta_na_submissao |-> rd.correta_na_submissao] :
               rd \in IF \E x \in rds : x.submissao_id = s.id
                      THEN {[rd_id |-> {x.id},
                             correta_na_submissao |-> x.correta_na_submissao] :
                               x \in {y \in rds : y.submissao_id = s.id}}
                      ELSE {[rd_id |-> {}, correta_na_submissao |-> {}]}} :
             s \in {t \in subs : t.utilizador_id = userID}}

\* SUM(pontuacao) over the joined rows, in hundredths
RECURSIVE SumPontuacao(_)
SumPontuacao(rows) ==
    IF rows = {} THEN 0
    ELSE LET r == CHOOSE x \in rows : TRUE
         IN  r.pontuacao + SumPontuacao(rows \ {r})

\* faulty variant of StatsDBRow: COUNT(*) for COUNT(rd.id)
StatsDBRowCountingNullRows(rows) ==
    [total_quizzes   |-> {Cardinality({r.id : r \in rows})},
     avg_score       |-> IF rows = {} THEN {}
                         ELSE {Rat(SumPontuacao(rows), 100 * Cardinality(rows))},
     total_respostas |-> {Cardinality(rows)},
     total_acertos   |-> IF rows = {} THEN {}
                         ELSE {Cardinality({r \in rows :
                                              r.correta_na_submissao = {TRUE}})}]

\* the one row of the aggregate query: COUNT is 0 and AVG, SUM are NULL
\* over no rows
StatsDBRow(rows) ==
    [total_quizzes   |-> {Cardinality({r.id : r \in rows})},
     avg_score       |-> IF rows = {} THEN {}
                         ELSE {Rat(SumPontuacao(rows), 100 * Cardinality(rows))},
     total_respostas |-> {Cardinality({r \in rows : r.rd_id # {}})},
     total_acertos   |-> IF rows = {} THEN {}
                         ELSE {Cardinality({r \in rows :
                                              r.correta_na_submissao = {TRUE}})}]

\* sql.NullInt64.Int64: the value, or 0 when NULL
NullInt64Value(x) == IF x = {} THEN 0 ELSE CHOOSE v \in x : TRUE

\* sql.NullFloat64.Float64: the value, or 0 when NULL
NullFloat64Value(x) == IF x = {} THEN Rat(0, 1) ELSE CHOOSE v \in x : TRUE

\* the conversion of the row into the UserStatsResponse
UserStatsResponse(userID, row) ==
    LET respondidas == NullInt64Value(row.total_respostas)
        acertos     == NullInt64Value(row.total_acertos)
    IN  [status                    |-> 200,
         UserID                    |-> Itoa(userID),
         TotalQuizzesRealizados    |-> NullInt64Value(row.total_quizzes),
         PontuacaoMedia            |-> NullFloat64Value(row.avg_score),
         TotalPerguntasRespondidas |-> respondidas,
         TotalAcertos              |-> acertos,
         TotalErros                |-> respondidas - acertos,
         PercentagemAcerto         |-> IF respondidas > 0
                                       THEN Rat(acertos * 100, respondidas)
                                       ELSE Rat(0, 1)]

\* the answer of GetUserStats (service over store)
UserStats(subs, rds, userIDStr) ==
    IF ~Atoi(userIDStr).ok
    THEN ErrorReply(400, "ErrInvalidInput")
    ELSE UserStatsResponse(Atoi(userIDStr).val,
                           StatsDBRow(StatsRows(subs, rds, Atoi(userIDStr).val)))

StatsTokens == {<<"1">>, <<"2">>, <<"x">>}

\* the answer is kept beside the user_id query parameter it answers
GetUserStats(userIDStr) ==
    /\ stats' = MapPut(UserStats(submissao, respostas_dadas, userIDStr),
                       "asked", userIDStr)
    /\ detail' = NoDetail
    /\ reply' = NoReply
    /\ UNCHANGED <<db, committed, serial, clock, pc, req, local, tx, resp>>

\* ------------------------------------------------------------------------
\* Store.GetUserSubmissions: the history of a user
\* ------------------------------------------------------------------------

\* the rows of submissao JOIN quizzes (JOIN tema) of one user; an inactive
\* quiz is joined like an active one
HistoryRows(subs, userID) ==
    {s \in subs : s.utilizador_id = userID /\ s.quizz_id \in quizzes}

\* ORDER BY s.datahora DESC
HistoryOrdered(rows) ==
    \A i \in 1..Len(rows) : \A j \in 1..Len(rows) :
        i < j => rows[i].datahora >= rows[j].datahora

\* the conversion of a row into the UserSubmissionHistoryResponse
HistoryResponse(r) ==
    [SubmissionID |-> r.id,
     QuizID       |-> r.quizz_id,
     Pontuacao    |-> Rat(r.pontuacao, 100),
     DataHora     |-> r.datahora]

\* the answers GetUserSubmissions (service over store) can give: rows of
\* the same instant come in any order
UserSubmissions(subs, userIDStr) ==
    IF ~Atoi(userIDStr).ok
    THEN {ErrorReply(400, "ErrInvalidInput")}
    ELSE {[status |-> 200,
           Submissions |-> [i \in 1..Len(rws) |-> HistoryResponse(rws[i])]] :
             rws \in {x \in Perms(HistoryRows(subs, Atoi(userIDStr).val)) :
                        HistoryOrdered(x)}}

\* the answer is kept beside the user_id query parameter it answers
GetUserSubmissions(userIDStr) ==
    /\ \E h \in UserSubmissions(submissao, userIDStr) :
         reply' = MapPut(MapPut(h, "op", "GetUserSubmissions"), "asked", userIDStr)
    /\ detail' = NoDetail
    /\ stats' = NoStats
    /\ UNCHANGED <<db, committed, serial, clock, pc, req, local, tx, resp>>

\* ------------------------------------------------------------------------
\* Store.DeactivateQuiz: the soft delete of a quiz
\* ------------------------------------------------------------------------

\* the rows UPDATE quizzes ... WHERE id = $1 AND ativo = TRUE changes
RowsAffected(quizID) ==
    IF quizID \in quizzes /\ ativo[quizID] THEN 1 ELSE 0

\* faulty variant of ExecDeactivate: the quiz is deleted with what refers
\* to it
ExecDeactivateDeleting(quizID) ==
    /\ ativo' = [q \in quizzes |-> IF q = quizID THEN FALSE ELSE ativo[q]]
    /\ submissao' = {s \in submissao : s.quizz_id # quizID}
    /\ UNCHANGED <<respostas_dadas, dificuldades>>

\* UPDATE quizzes SET ativo = FALSE WHERE id = $1 AND ativo = TRUE
ExecDeactivate(quizID) ==
    /\ ativo' = [q \in quizzes |-> IF q = quizID THEN FALSE ELSE ativo[q]]
    /\ UNCHANGED committed

DeactivateTokens == {<<"1">>, <<"3">>, <<"x">>}

\* DeactivateQuiz (service over store); the answer is kept beside the
\* quiz_id query parameter it answers
DeactivateQuiz(quizIDStr) ==
    /\ IF ~Atoi(quizIDStr).ok
       THEN /\ reply' = [status |-> 400, err |-> "ErrInvalidInput",
                         op |-> "DeactivateQuiz", asked |-> quizIDStr]
            /\ UNCHANGED <<ativo, committed>>
       ELSE /\ ExecDeactivate(Atoi(quizIDStr).val)
            /\ reply' = IF RowsAffected(Atoi(quizIDStr).val) = 0
                        THEN [status |-> 404, err |-> "ErrNotFound",
                              op |-> "DeactivateQuiz", asked |-> quizIDStr]
                        ELSE [status |-> 200,
                              op |-> "DeactivateQuiz", asked |-> quizIDStr]
    /\ detail' = NoDetail
    /\ stats' = NoStats
    /\ UNCHANGED <<perguntas, respostas, serial, clock, pc, req, local, tx, resp>>

\* ------------------------------------------------------------------------
\* Specifications
\* ------------------------------------------------------------------------

\* one request task, every request of Requests
Next ==
    \/ SubmitAnswersHandler(1, Requests)
    \/ GetQuizAnswers(1)
    \/ BeginTxx(1)
    \/ InsertSubmissao(1)
    \/ InsertRespostaDada(1)
    \/ InsertDificuldade(1)
    \/ Commit(1)
    \/ StoreError(1)
    \/ \E t \in DetailTokens : GetSubmissionDetails(t)
    \/ \E t \in StatsTokens : GetUserStats(t)

Spec == Init /\ [][Next]_vars

\* concurrent request tasks, the requests of SmallRequests
NextConc ==
    \/ \E p \in Procs : SubmitAnswersHandler(p, SmallRequests)
    \/ \E p \in Procs : GetQuizAnswers(p)
    \/ \E p \in Procs : BeginTxx(p)
    \/ \E p \in Procs : InsertSubmissao(p)
    \/ \E p \in Procs : InsertRespostaDada(p)
    \/ \E p \in Procs : InsertDificuldade(p)
    \/ \E p \in Procs : Commit(p)
    \/ \E p \in Procs : StoreError(p)
    \/ \E t \in DetailTokens : GetSubmissionDetails(t)
    \/ Tick

SpecConc == InitConc /\ [][NextConc]_vars

\* a step of SaveSubmissionStats of task p: the store call returns, with
\* its result or with an error
SaveStep(p) ==
    \/ BeginTxx(p)
    \/ InsertSubmissao(p)
    \/ InsertRespostaDada(p)
    \/ InsertDificuldade(p)
    \/ Commit(p)
    \/ StoreError(p)

\* the concurrent request tasks alone
NextLive ==
    \/ \E p \in Procs : SubmitAnswersHandler(p, SmallRequests)
    \/ \E p \in Procs : GetQuizAnswers(p)
    \/ \E p \in Procs : SaveStep(p)
    \/ Tick

\* each task keeps running: a store call of SaveSubmissionStats that can
\* return does return
SpecLive == InitConc /\ [][NextLive]_vars /\ \A p \in Procs : WF_vars(SaveStep(p))

\* concurrent request tasks on the quiz of three questions, with the
\* statistics of the users
InitStats == InitWith({QuizOfThree})

StatsRequests ==
    [QuizID : {<<"1">>}, UserID : {<<"1">>, <<"2">>},
     Answers : {<<UserAnswer(<<"1">>, "a"), UserAnswer(<<"2">>, "b")>>,
                <<UserAnswer(<<"1">>, "b")>>,
                <<UserAnswer(<<"x">>, "a")>>}]

NextStats ==
    \/ \E p \in Procs : SubmitAnswersHandler(p, StatsRequests)
    \/ \E p \in Procs : GetQuizAnswers(p)
    \/ \E p \in Procs : BeginTxx(p)
    \/ \E p \in Procs : InsertSubmissao(p)
    \/ \E p \in Procs : InsertRespostaDada(p)
    \/ \E p \in Procs : InsertDificuldade(p)
    \/ \E p \in Procs : Commit(p)
    \/ \E p \in Procs : StoreError(p)
    \/ \E t \in StatsTokens : GetUserStats(t)
    \/ Tick

SpecStats == InitStats /\ [][NextStats]_vars

\* concurrent request tasks beside every other operation of the service
FrameRequests ==
    {[QuizID |-> <<"1">>, UserID |-> <<"1">>,
      Answers |-> <<UserAnswer(<<"1">>, "a")>>],
     [QuizID |-> <<"1">>, UserID |-> <<"1">>,
      Answers |-> <<UserAnswer(<<"1">>, "b")>>],
     [QuizID |-> <<"1">>, UserID |-> <<"9">>,
      Answers |-> <<UserAnswer(<<"1">>, "b")>>]}

\* the parameters of the queries beside them
FrameTokens == {<<"1">>, <<"x">>}

NextFrame ==
    \/ \E p \in Procs : SubmitAnswersHandler(p, FrameRequests)
    \/ \E p \in Procs : GetQuizAnswers(p)
    \/ \E p \in Procs : SaveStep(p)
    \/ \E t \in FrameTokens : GetSubmissionDetails(t)
    \/ \E t \in FrameTokens : GetUserStats(t)
    \/ \E t \in FrameTokens : GetUserSubmissions(t)
    \/ \E t \in DeactivateTokens : DeactivateQuiz(t)
    \/ Tick

SpecFrame == InitConc /\ [][NextFrame]_vars

\* one request task on the quiz whose questions have duplicate texts,
\* several correct options or none
InitIrregular == InitWith({QuizIrregular})

IrregularPool ==
    {UserAnswer(<<"1">>, "a"), UserAnswer(<<"1">>, "b"),
     UserAnswer(<<"2">>, "a"), UserAnswer(<<"2">>, ""),
     UserAnswer(<<"3">>, "a")}

IrregularRequests ==
    [QuizID : {<<"1">>}, UserID : {<<"1">>},
     Answers : SeqsUpTo(IrregularPool, MaxAnswers)]

NextIrregular ==
    \/ SubmitAnswersHandler(1, IrregularRequests)
    \/ GetQuizAnswers(1)
    \/ SaveStep(1)

SpecIrregular == InitIrregular /\ [][NextIrregular]_vars

\* ------------------------------------------------------------------------
\* Properties
\* ------------------------------------------------------------------------

Abs(x) == IF x < 0 THEN 0 - x ELSE x

\* task p has read a non-empty key and graded its answers
HasGraded(p) == DOMAIN local[p].answerMap # {}

\* the stored options of a question
OptionsOf(questionID) == {r \in respostas : r.pergunta_id = questionID}

\* the questions of a quiz
QuizQuestions(quizID) == {q \in perguntas : q.quizz_id = quizID}

\* the ids of the questions in the key of a quiz: those with an option
KeyQuestions(quizID) ==
    {q.id : q \in {x \in QuizQuestions(quizID) : OptionsOf(x.id) # {}}}

\* an answer whose token does not parse or names no question of the key
Malformed(quizID, a) ==
    \/ ~Atoi(a.QuestionID).ok
    \/ Atoi(a.QuestionID).val \notin KeyQuestions(quizID)

WellFormedAnswer(quizID, a) == ~Malformed(quizID, a)

\* the number of indices of a sequence that satisfy Test
CountIn(s, Test(_)) == Cardinality({i \in 1..Len(s) : Test(s[i])})

DraftIsCorrect(d) == d.CorretaNaSubmissao = {TRUE}

DraftIsIncorrect(d) == d.CorretaNaSubmissao = {FALSE}

C2_ScoreWithinRange ==
    \A p \in Procs :
        HasGraded(p) =>
            /\ local[p].grade.correctCount <= local[p].grade.totalCount
            /\ RatLeq(Rat(0, 1), local[p].score)
            /\ RatLeq(local[p].score, Rat(100, 1))

\* the request names a quiz with a key and a user that exists
ValidIds(r) ==
    /\ Atoi(r.QuizID).ok
    /\ KeyQuestions(Atoi(r.QuizID).val) # {}
    /\ Atoi(r.UserID).ok
    /\ Atoi(r.UserID).val \in utilizadores

\* C3 (as stated): a request with zero answers against a non-empty key
\* succeeds with score 0, correct_count 0 and total_count = the key size.
C3_ZeroAnswersSucceed ==
    \A p \in Procs :
        (pc[p] = "done" /\ Len(req[p].Answers) = 0 /\ ValidIds(req[p])) =>
            /\ resp[p].status = 200
            /\ resp[p].CorrectCount = 0
            /\ resp[p].TotalCount = Cardinality(KeyQuestions(local[p].quizID))
            /\ RatEq(resp[p].Score, Rat(0, 1))

\* C3 (amended): a request with zero answers is rejected by the handler
\* with 400 before the service runs (nothing is read, graded or persisted);
\* a successful submission none of whose answers names a question of the
\* key reports score 0, correct_count 0 and total_count = the key size.
C3_NoGradedAnswerScoresZero ==
    \A p \in Procs :
        /\ (pc[p] # "idle" /\ Len(req[p].Answers) = 0) =>
              /\ pc[p] = "done"
              /\ resp[p] = ErrorReply(400, "BadRequest")
              /\ local[p] = NoLocal
              /\ tx[p] = NoTx
        /\ (/\ resp[p].status = 200
            /\ \A i \in 1..Len(req[p].Answers) :
                 Malformed(local[p].quizID, req[p].Answers[i])) =>
              /\ resp[p].CorrectCount = 0
              /\ resp[p].TotalCount = Cardinality(KeyQuestions(local[p].quizID))
              /\ resp[p].TotalCount > 0
              /\ RatEq(resp[p].Score, Rat(0, 1))

\* a successful submission of answers that are all skipped
C3_Witness ==
    \E p \in Procs :
        /\ resp[p].status = 200
        /\ Len(req[p].Answers) > 0
        /\ \A i \in 1..Len(req[p].Answers) :
             Malformed(local[p].quizID, req[p].Answers[i])
        /\ RatEq(resp[p].Score, Rat(0, 1))

\* the rows of a table owned by a submission
RowsOf(table, submissionID) == {r \in table : r.submissao_id = submissionID}

\* C4: an answer whose token does not parse or whose question id is not in
\* the key changes no count and leaves no draft and no difficulty entry:
\* the grading result, the response and the persisted rows are those of the
\* request without the malformed answers.
C4_MalformedAnswersAreIgnored ==
    \A p \in Procs :
        HasGraded(p) =>
            LET wellFormed == SelectSeq(req[p].Answers,
                                        LAMBDA a : WellFormedAnswer(local[p].quizID, a))
                expected   == Grade(local[p].answerMap, wellFormed)
            IN  /\ local[p].grade = expected
                /\ local[p].grade.totalCount =
                       Cardinality(KeyQuestions(local[p].quizID))
                /\ Len(local[p].grade.respostasDadas) <= Len(wellFormed)
                /\ Len(local[p].grade.respostasDadas) =
                       local[p].grade.correctCount + Len(local[p].grade.dificuldades)
                /\ (resp[p].status = 200) =>
                      /\ resp[p].CorrectCount = expected.correctCount
                      /\ Cardinality(RowsOf(respostas_dadas, resp[p].SubmissionID))
                             = Len(expected.respostasDadas)
                      /\ Cardinality(RowsOf(dificuldades, resp[p].SubmissionID))
                             = Len(expected.dificuldades)

\* a successful submission with a malformed answer beside a graded one
C4_Witness ==
    \E p \in Procs :
        /\ resp[p].status = 200
        /\ \E i \in 1..Len(req[p].Answers) :
             Malformed(local[p].quizID, req[p].Answers[i])
        /\ Len(local[p].grade.respostasDadas) >= 1

\* C5: an answer for a question of the quiz whose text is the text of no
\* stored option of that question yields a draft with a null option id, and
\* is counted as incorrect unless the text equals the key's correct-option
\* text; every draft is counted once, as correct or as a difficulty entry.
C5_UnknownOptionTextIsNullAndIncorrect ==
    \A p \in Procs :
        HasGraded(p) =>
            LET graded == SelectSeq(req[p].Answers,
                                    LAMBDA a : ~Skipped(local[p].answerMap, a))
                drafts == local[p].grade.respostasDadas
            IN  /\ Len(drafts) = Len(graded)
                /\ \A i \in 1..Len(drafts) :
                     LET a == graded[i]
                         q == Atoi(a.QuestionID).val
                     IN  (a.SelectedOption \notin {r.corpo : r \in OptionsOf(q)}) =>
                            /\ drafts[i].PerguntaID = q
                            /\ drafts[i].RespostaID = {}
                            /\ (a.SelectedOption #
                                  local[p].answerMap[a.QuestionID].CorrectOptionText)
                                 => DraftIsIncorrect(drafts[i])
                /\ local[p].grade.correctCount = CountIn(drafts, DraftIsCorrect)
                /\ Len(local[p].grade.dificuldades) = CountIn(drafts, DraftIsIncorrect)

\* a graded answer with a text of no option: null option id, incorrect
C5_Witness ==
    \E p \in Procs :
        /\ HasGraded(p)
        /\ \E i \in 1..Len(local[p].grade.respostasDadas) :
             /\ local[p].grade.respostasDadas[i].RespostaID = {}
             /\ DraftIsIncorrect(local[p].grade.respostasDadas[i])
        /\ Len(local[p].grade.dificuldades) >= 1

\* the committed rows and the uncommitted rows of the open transactions
AllRespostasDadas ==
    respostas_dadas \cup UNION {tx[p].respostas_dadas : p \in Procs}

\* the id of the Submission row task p inserted, if it got that far
SavedIDs(p) == {s.id : s \in local[p].savedSub}

\* no committed row belongs to the submission of task p
NothingVisibleOf(p) ==
    \A id \in SavedIDs(p) :
        /\ id \notin {s.id : s \in submissao}
        /\ RowsOf(respostas_dadas, id) = {}
        /\ RowsOf(dificuldades, id) = {}

\* the committed rows of the submission of task p are those of its drafts
EverythingVisibleOf(p) ==
    LET id     == SubmissionID(local[p])
        drafts == local[p].grade.respostasDadas
        difs   == local[p].grade.dificuldades
    IN  /\ local[p].savedSub \subseteq submissao
        /\ Cardinality(RowsOf(respostas_dadas, id)) = Len(drafts)
        /\ \A i \in 1..Len(drafts) :
             \E r \in RowsOf(respostas_dadas, id) :
                 /\ r.pergunta_id = drafts[i].PerguntaID
                 /\ r.resposta_id = drafts[i].RespostaID
                 /\ r.correta_na_submissao = drafts[i].CorretaNaSubmissao
        /\ Cardinality(RowsOf(dificuldades, id)) = Len(difs)
        /\ \A i \in 1..Len(difs) :
             \E r \in RowsOf(dificuldades, id) : r.assunto = difs[i].Assunto

\* C6: SaveSubmissionStats is all-or-nothing. In every state the committed
\* tables show a Submission row only together with all GivenAnswer and
\* difficulty rows of its drafts, and no dependent row without its
\* Submission; a call that failed at any insert or at the commit left no
\* row visible and answered with an error; a call that is still running
\* shows nothing.
C6_SaveIsAllOrNothing ==
    /\ \A r \in respostas_dadas \cup dificuldades :
           r.submissao_id \in {s.id : s \in submissao}
    /\ \A s \in submissao :
           \E p \in Procs :
               /\ pc[p] = "done"
               /\ resp[p].status = 200
               /\ local[p].savedSub = {s}
    /\ \A p \in Procs :
           /\ (pc[p] = "done" /\ resp[p].status = 200) => EverythingVisibleOf(p)
           /\ (pc[p] = "done" /\ resp[p].status # 200) =>
                  /\ NothingVisibleOf(p)
                  /\ tx[p] = NoTx
                  /\ resp[p].status \in {400, 404, 500}
           /\ (pc[p] # "done") => NothingVisibleOf(p)

\* a call that failed after its Submission row was inserted
C6_Witness ==
    \E p \in Procs :
        /\ pc[p] = "done"
        /\ resp[p].status = 500
        /\ local[p].savedSub # {}
        /\ resp[p].step \in {"InsertRespostaDada", "InsertDificuldade", "Commit"}
        /\ \E q \in Procs \ {p} : resp[q].status = 200

\* an answer whose token is the canonical decimal of a question of the key
NamesQuestion(quizID, a, questionID) ==
    /\ questionID \in KeyQuestions(quizID)
    /\ a.QuestionID = Itoa(questionID)

\* the request has two answers for one question of the quiz
HasDuplicateAnswers(r) ==
    \E i, j \in 1..Len(r.Answers) :
        /\ i < j
        /\ \E q \in KeyQuestions(Atoi(r.QuizID).val) :
             /\ NamesQuestion(Atoi(r.QuizID).val, r.Answers[i], q)
             /\ NamesQuestion(Atoi(r.QuizID).val, r.Answers[j], q)

\* C7: a request with two answers for one question id of the quiz makes
\* both drafts, reaches the GivenAnswer inserts, fails at one of them on
\* the (submission, question) uniqueness constraint (unless the store
\* failed for a cause of its own before), returns an error and leaves no
\* row in the store.
C7_DuplicateAnswersFailOnUniqueness ==
    \A p \in Procs :
        (pc[p] = "done" /\ ValidIds(req[p]) /\ HasDuplicateAnswers(req[p])) =>
            /\ resp[p].status = 500
            /\ submissao = {} /\ respostas_dadas = {} /\ dificuldades = {}
            /\ (resp[p].cause # "canceled") =>
                  /\ resp[p].step = "InsertRespostaDada"
                  /\ resp[p].cause = "unique_violation"
                  /\ Len(local[p].grade.respostasDadas) >= 2

\* C8: in every state there is at most one GivenAnswer row per
\* (submission, question) pair, among the committed rows and the rows of
\* the open transactions alike.
C8_OneGivenAnswerPerQuestion ==
    \A a, b \in AllRespostasDadas :
        (a.submissao_id = b.submissao_id /\ a.pergunta_id = b.pergunta_id) => a = b

\* a second answer for a question was refused while GivenAnswer rows of an
\* earlier submission are stored
C8_Witness ==
    \E p \in Procs :
        /\ pc[p] = "done"
        /\ resp[p].status = 500
        /\ resp[p].step = "InsertRespostaDada"
        /\ resp[p].cause = "unique_violation"
        /\ respostas_dadas # {}

\* the request passes the checks of the handler and of the id parsing
WellFormedRequest(r) ==
    /\ ~HandlerRejects(r)
    /\ ~IdsInvalid(r)

\* C9: when the key of the requested quiz has zero rows (no such quiz, or
\* no question of it has an option), SubmitAnswers fails with ErrNotFound
\* (or with the error of the key query itself), never opens a transaction
\* and persists nothing.
C9_EmptyKeyIsNotFound ==
    \A p \in Procs :
        (/\ pc[p] # "idle"
         /\ WellFormedRequest(req[p])
         /\ KeyQuestions(Atoi(req[p].QuizID).val) = {}) =>
            /\ pc[p] \in {"GetQuizAnswers", "done"}
            /\ (pc[p] = "done") =>
                  \/ resp[p] = ErrorReply(404, "ErrNotFound")
                  \/ resp[p] = InternalError("GetQuizAnswers", "canceled")
            /\ tx[p] = NoTx
            /\ local[p].savedSub = {}
            /\ submissao = {} /\ respostas_dadas = {} /\ dificuldades = {}

\* not-found was answered for a quiz that does not exist
C9_Witness ==
    \E p \in Procs :
        /\ pc[p] = "done"
        /\ WellFormedRequest(req[p])
        /\ Atoi(req[p].QuizID).val \notin quizzes
        /\ KeyQuestions(Atoi(req[p].QuizID).val) = {}
        /\ resp[p] = ErrorReply(404, "ErrNotFound")

\* the option list of an entry is the stored options of its question, each
\* once
OptionsAreStored(entry) ==
    /\ Len(entry.Opcoes) = Cardinality(OptionsOf(entry.PerguntaID))
    /\ \A r \in OptionsOf(entry.PerguntaID) :
           \E i \in 1..Len(entry.Opcoes) :
               /\ entry.Opcoes[i].RespostaID = r.id
               /\ entry.Opcoes[i].Corpo = r.corpo

\* the entries are one per question of qs
OnePerQuestion(entries, qs) ==
    /\ Len(entries) = Cardinality(qs)
    /\ {entries[i].PerguntaID : i \in 1..Len(entries)} = qs

\* C10 (as stated): the detail view of a submission has one entry per
\* question of the quiz, each with exactly the options stored for it,
\* answered or not.
C10_OneEntryPerQuestion ==
    (detail.status = 200) =>
        /\ OnePerQuestion(detail.Perguntas,
                          {q.id : q \in QuizQuestions(detail.QuizID)})
        /\ \A i \in 1..Len(detail.Perguntas) : OptionsAreStored(detail.Perguntas[i])

\* C10 (amended): the detail view of a submission has one entry per
\* question of the quiz that has at least one stored option (a question
\* without options has no entry), each with exactly the options stored for
\* it, answered or not.
C10_OneEntryPerQuestionWithOptions ==
    (detail.status = 200) =>
        /\ OnePerQuestion(detail.Perguntas, KeyQuestions(detail.QuizID))
        /\ \A i \in 1..Len(detail.Perguntas) : OptionsAreStored(detail.Perguntas[i])

\* a detail view with an entry of an answered and one of an unanswered
\* question
C10_Witness ==
    /\ detail.status = 200
    /\ \E i, j \in 1..Len(detail.Perguntas) :
         /\ \E rd \in RowsOf(respostas_dadas, detail.SubmissionID) :
                rd.pergunta_id = detail.Perguntas[i].PerguntaID
         /\ \A rd \in RowsOf(respostas_dadas, detail.SubmissionID) :
                rd.pergunta_id # detail.Perguntas[j].PerguntaID
         /\ Len(detail.Perguntas[j].Opcoes) >= 1

\* the GivenAnswer rows of a submission for a question
GivenFor(submissionID, questionID) ==
    {rd \in RowsOf(respostas_dadas, submissionID) : rd.pergunta_id = questionID}

\* C11: in the detail view, the acertou flag of a question equals the
\* correctness flag stored in the submission's GivenAnswer for the question
\* when there is one, and is false when the submission has no GivenAnswer
\* for the question.
C11_AcertouIsStoredFlag ==
    (detail.status = 200) =>
        \A i \in 1..Len(detail.Perguntas) :
            LET e     == detail.Perguntas[i]
                given == GivenFor(detail.SubmissionID, e.PerguntaID)
            IN  /\ (given = {}) => (e.Acertou = FALSE)
                /\ \A rd \in given :
                       e.Acertou = (rd.correta_na_submissao = {TRUE})

\* a detail view with a question answered correctly and one not answered
C11_Witness ==
    /\ detail.status = 200
    /\ \E i, j \in 1..Len(detail.Perguntas) :
         /\ detail.Perguntas[i].Acertou = TRUE
         /\ GivenFor(detail.SubmissionID, detail.Perguntas[i].PerguntaID) # {}
         /\ detail.Perguntas[j].Acertou = FALSE
         /\ GivenFor(detail.SubmissionID, detail.Perguntas[j].PerguntaID) = {}

\* C12: the detail view lists the questions in the order in which their ids
\* are first met in the join rows, which are ordered by question id: in
\* ascending order of question id, the same on every call.
C12_QuestionsInFirstSeenOrder ==
    (detail.status = 200) =>
        \A i, j \in 1..Len(detail.Perguntas) :
            (i < j) => detail.Perguntas[i].PerguntaID < detail.Perguntas[j].PerguntaID

\* the detail join has a row for the submission id: the submission is
\* stored and its quiz has a question with an option
HasDetailRows(submissionID) ==
    \E s \in submissao : s.id = submissionID /\ KeyQuestions(s.quizz_id) # {}

\* C13: when the detail join has no row for the requested submission id,
\* GetSubmissionDetails answers not-found (sql.ErrNoRows from the store,
\* ErrNotFound from the service, 404 from the handler) and no detail view;
\* a view is answered only for a submission id that has rows.
C13_NoRowsIsNotFound ==
    (detail.status # 0 /\ Atoi(detail.asked).ok) =>
        IF HasDetailRows(Atoi(detail.asked).val)
        THEN /\ detail.status = 200
             /\ detail.SubmissionID = Atoi(detail.asked).val
        ELSE /\ detail.status = 404
             /\ detail.err = "ErrNotFound"
             /\ DOMAIN detail = {"status", "err", "asked"}

\* not-found answered for a submission id that is not stored, while
\* another submission is
C13_Witness ==
    /\ detail.status = 404
    /\ Atoi(detail.asked).ok
    /\ ~HasDetailRows(Atoi(detail.asked).val)
    /\ submissao # {}

\* the committed submissions of a user
SubmissionsOf(userID) == {s \in submissao : s.utilizador_id = userID}

\* C14: GetUserStats on a user with no submissions returns no error and a
\* result whose total quizzes, answered count, correct count, error count,
\* accuracy percentage and average score are all zero.
C14_NoSubmissionsAllZero ==
    (/\ stats.status # 0
     /\ Atoi(stats.asked).ok
     /\ SubmissionsOf(Atoi(stats.asked).val) = {}) =>
        /\ stats.status = 200
        /\ stats.UserID = Itoa(Atoi(stats.asked).val)
        /\ stats.TotalQuizzesRealizados = 0
        /\ stats.TotalPerguntasRespondidas = 0
        /\ stats.TotalAcertos = 0
        /\ stats.TotalErros = 0
        /\ RatEq(stats.PercentagemAcerto, Rat(0, 1))
        /\ RatEq(stats.PontuacaoMedia, Rat(0, 1))

\* the statistics of a user without submissions, asked while another user
\* has a submission with a GivenAnswer
C14_Witness ==
    /\ stats.status = 200
    /\ SubmissionsOf(Atoi(stats.asked).val) = {}
    /\ respostas_dadas # {}
    /\ stats.TotalQuizzesRealizados = 0

\* the sum of the scores of a set of submissions, in hundredths
RECURSIVE SumOfScores(_)
SumOfScores(subs) ==
    IF subs = {} THEN 0
    ELSE LET s == CHOOSE x \in subs : TRUE
         IN  s.pontuacao + SumOfScores(subs \ {s})

\* C15: for a user with at least one submission, GetUserStats reports total
\* quizzes = the number of submissions of the user and average score = the
\* mean of the scores of those submissions, each submission counted once
\* whatever the number of its GivenAnswer rows.
C15_AverageOverSubmissions ==
    (stats.status = 200 /\ SubmissionsOf(Atoi(stats.asked).val) # {}) =>
        LET subs == SubmissionsOf(Atoi(stats.asked).val)
        IN  /\ stats.TotalQuizzesRealizados = Cardinality(subs)
            /\ RatEq(stats.PontuacaoMedia,
                     Rat(SumOfScores(subs), 100 * Cardinality(subs)))

\* the committed GivenAnswer rows of the submissions of a user
GivenAnswersOf(userID) ==
    {rd \in respostas_dadas :
        rd.submissao_id \in {s.id : s \in SubmissionsOf(userID)}}

\* C16: in every GetUserStats result the answered count is the number of
\* GivenAnswer rows of the user's submissions, the correct count the number
\* of those flagged correct, the error count is answered - correct (so
\* 0 <= correct <= answered), and the accuracy percentage is
\* correct / answered * 100, or 0 when answered is 0.
C16_CountsAndAccuracy ==
    (stats.status = 200) =>
        LET given    == GivenAnswersOf(Atoi(stats.asked).val)
            answered == Cardinality(given)
            correct  == Cardinality({rd \in given : rd.correta_na_submissao = {TRUE}})
        IN  /\ stats.TotalPerguntasRespondidas = answered
            /\ stats.TotalAcertos = correct
            /\ stats.TotalErros = answered - correct
            /\ stats.TotalAcertos + stats.TotalErros = stats.TotalPerguntasRespondidas
            /\ 0 <= stats.TotalAcertos
            /\ stats.TotalAcertos <= stats.TotalPerguntasRespondidas
            /\ IF answered = 0
               THEN RatEq(stats.PercentagemAcerto, Rat(0, 1))
               ELSE RatEq(stats.PercentagemAcerto, Rat(correct * 100, answered))

\* the statistics of a user with correct and incorrect GivenAnswers and a
\* submission without GivenAnswer
C16_Witness ==
    /\ stats.status = 200
    /\ stats.TotalQuizzesRealizados = 2
    /\ stats.TotalAcertos >= 1
    /\ stats.TotalErros >= 1
    /\ \E s \in SubmissionsOf(Atoi(stats.asked).val) :
           RowsOf(respostas_dadas, s.id) # {}

\* C17: the read of the answer key and the write of the graded result of
\* one SubmitAnswers call run inside one transaction: a task that holds a
\* key it has graded and has not yet answered has its transaction open, so
\* that no write to the quiz's options can fall between the read and the
\* commit.
C17_KeyReadInsideTransaction ==
    \A p \in Procs :
        (HasGraded(p) /\ pc[p] # "done") => tx[p].open

\* the request is well formed: valid ids, one answer per question at most
WellFormedSubmission(r) ==
    /\ WellFormedRequest(r)
    /\ ValidIds(r)
    /\ ~HasDuplicateAnswers(r)

\* C18: concurrent submissions are independent: a well-formed submission,
\* by a different user or by the same user for the same quiz as a
\* concurrent one, commits in either order; it fails only on an error of
\* its own store calls, never because of the other submission.
C18_ConcurrentSubmissionsIndependent ==
    \A p \in Procs :
        (/\ pc[p] = "done"
         /\ WellFormedSubmission(req[p])
         /\ resp[p].status # 200) =>
            /\ resp[p].status = 500
            /\ resp[p].cause = "canceled"

\* the steps of SaveSubmissionStats taken with the transaction open
InTransaction == {"InsertSubmissao", "InsertRespostaDada", "InsertDificuldade", "Commit"}

\* the context of task p was cancelled while its transaction was in flight
CancelledInFlight(p) ==
    /\ pc[p] = "done"
    /\ resp[p].status = 500
    /\ resp[p].cause = "canceled"
    /\ resp[p].step \in InTransaction

\* C19: every transaction opened by SaveSubmissionStats is eventually
\* closed, by a commit or a rollback, and is open only while the call runs;
\* when the context is cancelled with the transaction in flight, the
\* transaction is rolled back, an error is returned and no row of the call
\* is visible.
C19_TransactionsAreClosed ==
    /\ \A p \in Procs : tx[p].open ~> ~tx[p].open
    /\ [](\A p \in Procs :
            /\ tx[p].open => pc[p] \in InTransaction
            /\ CancelledInFlight(p) => (tx[p] = NoTx /\ NothingVisibleOf(p)))

\* a call cancelled at its commit, after its rows were written in the
\* transaction
C19_Witness ==
    \E p \in Procs :
        /\ CancelledInFlight(p)
        /\ resp[p].step = "Commit"
        /\ local[p].savedSub # {}
        /\ Len(local[p].grade.respostasDadas) >= 1

\* the answer of the ErrInvalidInput condition to a query parameter
InvalidInputAnswer(asked) ==
    [status |-> 400, err |-> "ErrInvalidInput", asked |-> asked]

\* C20: when the quiz id or the user id of a submit request does not parse
\* as an integer, SubmitAnswers fails with ErrInvalidInput before any store
\* access: the key is not read, no transaction is opened, no id is drawn
\* and the tables are unchanged; GetUserStats and GetSubmissionDetails
\* answer ErrInvalidInput to an id that does not parse.
C20_UnparseableIdsAreInvalidInput ==
    /\ \A p \in Procs :
           (/\ pc[p] # "idle"
            /\ ~HandlerRejects(req[p])
            /\ (~Atoi(req[p].QuizID).ok \/ ~Atoi(req[p].UserID).ok)) =>
               /\ pc[p] = "done"
               /\ resp[p] = ErrorReply(400, "ErrInvalidInput")
               /\ local[p] = NoLocal
               /\ tx[p] = NoTx
               /\ submissao = {} /\ respostas_dadas = {} /\ dificuldades = {}
               /\ serial = [submissao |-> 1, respostas_dadas |-> 1, dificuldades |-> 1]
    /\ (stats.status # 0 /\ ~Atoi(stats.asked).ok) =>
           stats = InvalidInputAnswer(stats.asked)
    /\ (detail.status # 0 /\ ~Atoi(detail.asked).ok) =>
           detail = InvalidInputAnswer(detail.asked)

\* a submit request with a quiz id that parses and a user id that does not
C20_Witness ==
    \E p \in Procs :
        /\ pc[p] = "done"
        /\ ~HandlerRejects(req[p])
        /\ Atoi(req[p].QuizID).ok
        /\ ~Atoi(req[p].UserID).ok
        /\ resp[p] = ErrorReply(400, "ErrInvalidInput")

\* the causes of a failed store call
StoreFailures ==
    {"canceled", "unique_violation", "foreign_key_violation", "check_violation",
     "numeric_value_out_of_range"}

\* the request is bound to fail in SaveSubmissionStats: its user is not
\* stored, or it has two answers for one question
BoundToFailInStore(r) ==
    /\ WellFormedRequest(r)
    /\ KeyQuestions(Atoi(r.QuizID).val) # {}
    /\ \/ Atoi(r.UserID).val \notin utilizadores
       \/ HasDuplicateAnswers(r)

StoredSubject(questionID) ==
    (CHOOSE q \in perguntas : q.id = questionID).assunto

\* the drafts of task p flagged incorrect, in the order of the answers
IncorrectDrafts(p) == SelectSeq(local[p].grade.respostasDadas, DraftIsIncorrect)

\* C22: after a successful submission, the DifficultyMark rows owned by the
\* Submission are exactly one per graded incorrect answer whose question
\* has a non-null subject: none for a correct answer, none for an incorrect
\* answer to a question whose subject is null.
C22_DifficultyOnlyForNonNullSubject ==
    \A p \in Procs :
        (pc[p] = "done" /\ resp[p].status = 200) =>
            Cardinality(RowsOf(dificuldades, resp[p].SubmissionID)) =
                Cardinality({i \in 1..Len(IncorrectDrafts(p)) :
                               StoredSubject(IncorrectDrafts(p)[i].PerguntaID) # {}})


\* the request tasks whose SubmitAnswers call has succeeded
Succeeded == {p \in Procs : pc[p] = "done" /\ resp[p].status = 200}

\* the Submissao the call of task p asked the store to save
SubmissaoParaSalvar(p) ==
    [datahora      |-> local[p].dataHora,
     pontuacao     |-> Numeric52(local[p].score),
     utilizador_id |-> local[p].userID,
     quizz_id      |-> local[p].quizID]

\* C23: each SubmitAnswers call that succeeds creates exactly one Submission
\* row (the one it answers with, holding the timestamp, score, user id and
\* quiz id it computed), a call that fails creates none, and no operation
\* (grading, detail, stats, history, quiz deactivation) changes or removes
\* an existing Submission row
C23_SubmissionRowsCreatedOnceAndKept ==
    /\ [](/\ Cardinality(submissao) = Cardinality(Succeeded)
          /\ \A p \in Succeeded :
               \E s \in submissao :
                   /\ s.id = resp[p].SubmissionID
                   /\ [x \in DOMAIN SubmissaoParaSalvar(p) |-> s[x]] = SubmissaoParaSalvar(p)
                   /\ \A q \in Succeeded \ {p} : resp[q].SubmissionID # s.id)
    /\ [][\A s \in submissao : s \in submissao']_vars

\* witness of C23: one call has succeeded and one has failed in the store,
\* the row of the first is there after the quiz was deactivated
C23_Witness ==
    /\ \E p \in Succeeded : \E q \in Procs :
         /\ pc[q] = "done" /\ resp[q].status = 500
         /\ \E s \in submissao : s.id = resp[p].SubmissionID /\ ~ativo[s.quizz_id]
    /\ reply.status = 200 /\ reply.op = "DeactivateQuiz"


\* the question ids the answers of a request name: those of the answers
\* whose token parses to the id of a question in the key
AnsweredQuestions(quizID, answers) ==
    {Atoi(answers[i].QuestionID).val :
       i \in {j \in 1..Len(answers) : WellFormedAnswer(quizID, answers[j])}}

\* C24 (as stated): after a successful submission the GivenAnswer rows of
\* the Submission are exactly one per question the user answered that
\* belongs to the quiz (the answers that parsed and were found in the key),
\* each with the correctness flag computed for that answer
C24_OneRowPerAnsweredQuestion ==
    \A p \in Procs :
        (pc[p] = "done" /\ resp[p].status = 200) =>
            LET rows   == RowsOf(respostas_dadas, resp[p].SubmissionID)
                drafts == local[p].grade.respostasDadas
            IN  /\ {r.pergunta_id : r \in rows} =
                       AnsweredQuestions(local[p].quizID, req[p].Answers)
                /\ Cardinality(rows) =
                       Cardinality(AnsweredQuestions(local[p].quizID, req[p].Answers))
                /\ \A r \in rows :
                       \E i \in 1..Len(drafts) :
                           /\ drafts[i].PerguntaID = r.pergunta_id
                           /\ drafts[i].CorretaNaSubmissao = r.correta_na_submissao

\* C25 (as stated): an answer is skipped at the key lookup only if the
\* integer parsed from its token is not the id of a question in the key;
\* every token that parses to the id of a question of the quiz, whatever
\* its textual form, is graded
C25_ParsedTokensOfTheQuizAreGraded ==
    \A p \in Procs :
        HasGraded(p) =>
            \A i \in 1..Len(req[p].Answers) :
                WellFormedAnswer(local[p].quizID, req[p].Answers[i]) =>
                    ~Skipped(local[p].answerMap, req[p].Answers[i])


\* the options of a question flagged correct
CorrectOptionsOf(questionID) == {r \in OptionsOf(questionID) : r.correta}

\* the options of a question a GivenAnswer of the submission refers to
ChosenOptions(submissionID, questionID) ==
    {r \in OptionsOf(questionID) :
       \E rd \in GivenFor(submissionID, questionID) : rd.resposta_id = {r.id}}

\* the option texts listed for a question of the detail view
OpcoesTexts(e) == {e.Opcoes[k].Corpo : k \in 1..Len(e.Opcoes)}

\* C26: in the detail view a question's chosen-answer text is present iff
\* the submission has a GivenAnswer for the question whose option id is
\* non-null and is the id of one of the question's options, and is then
\* that option's text; the correct-answer text is the text of an option of
\* the question flagged correct (empty when there is none); both are texts
\* of the option list, and a question answered with a null option id has
\* no chosen-answer text and keeps its stored acertou flag
C26_ChosenAndCorrectTextsFollowTheJoin ==
    (detail.status = 200) =>
        \A i \in 1..Len(detail.Perguntas) :
            LET e      == detail.Perguntas[i]
                given  == GivenFor(detail.SubmissionID, e.PerguntaID)
                chosen == ChosenOptions(detail.SubmissionID, e.PerguntaID)
                right  == CorrectOptionsOf(e.PerguntaID)
            IN  /\ e.RespostaUtilizador = {r.corpo : r \in chosen}
                /\ Cardinality(e.RespostaUtilizador) <= 1
                /\ e.RespostaUtilizador \subseteq OpcoesTexts(e)
                /\ IF right = {} THEN e.RespostaCorreta = ""
                   ELSE /\ e.RespostaCorreta \in {r.corpo : r \in right}
                        /\ e.RespostaCorreta \in OpcoesTexts(e)
                /\ \A rd \in given :
                       (rd.resposta_id = {}) =>
                           /\ e.RespostaUtilizador = {}
                           /\ e.Acertou = (rd.correta_na_submissao = {TRUE})

\* witness of C26: a detail view with a question answered with a null
\* option id and a question whose chosen option is shown
C26_Witness ==
    /\ detail.status = 200
    /\ \E i \in 1..Len(detail.Perguntas) :
         /\ \E rd \in GivenFor(detail.SubmissionID, detail.Perguntas[i].PerguntaID) :
              rd.resposta_id = {}
         /\ detail.Perguntas[i].RespostaUtilizador = {}
    /\ \E j \in 1..Len(detail.Perguntas) :
         /\ ChosenOptions(detail.SubmissionID, detail.Perguntas[j].PerguntaID) # {}
         /\ detail.Perguntas[j].RespostaUtilizador # {}


\* C27 (as stated): a null question subject is kept as an absent value
\* through grading and persistence, never replaced by the empty string: the
\* key entry of a question carries the stored subject, and so does every
\* difficulty entry produced for it, in the drafts and in the rows saved
C27_NullSubjectStaysNull ==
    \A p \in Procs :
        HasGraded(p) =>
            /\ \A k \in DOMAIN local[p].answerMap :
                   {local[p].answerMap[k].Assunto} = StoredSubject(Atoi(k).val)
            /\ \A i \in 1..Len(IncorrectDrafts(p)) :
                   local[p].grade.dificuldades[i].Assunto =
                       StoredSubject(IncorrectDrafts(p)[i].PerguntaID)
            /\ (pc[p] = "done" /\ resp[p].status = 200) =>
                   \A d \in RowsOf(dificuldades, resp[p].SubmissionID) :
                       \E i \in 1..Len(IncorrectDrafts(p)) :
                           d.assunto = StoredSubject(IncorrectDrafts(p)[i].PerguntaID)


\* the last index of a non-empty set of indices
LastOf(S) == CHOOSE i \in S : \A j \in S : j <= i

\* a quiz each of whose questions has distinct option texts and exactly one
\* option flagged correct
RegularQuiz(quizID) ==
    \A q \in KeyQuestions(quizID) :
        /\ \A r1, r2 \in OptionsOf(q) : (r1.corpo = r2.corpo) => (r1 = r2)
        /\ Cardinality(CorrectOptionsOf(q)) = 1

\* what C28 says of the key built from the rows in one order
KeyFollowsRows(m, rows) ==
    /\ DOMAIN m = {Itoa(rows[i].QuestionID) : i \in 1..Len(rows)}
    /\ \A k \in DOMAIN m :
         LET mine    == {i \in 1..Len(rows) : Itoa(rows[i].QuestionID) = k}
             correct == {i \in mine : rows[i].Correta}
         IN  /\ m[k].QuestionID = Atoi(k).val
             /\ DOMAIN m[k].OptionsMap = {rows[i].CorpoResposta : i \in mine}
             /\ \A t \in DOMAIN m[k].OptionsMap :
                    m[k].OptionsMap[t] =
                        rows[LastOf({i \in mine : rows[i].CorpoResposta = t})].RespostaID
             /\ m[k].CorrectOptionText =
                    IF correct = {} THEN "" ELSE rows[LastOf(correct)].CorpoResposta

\* C28: GetQuizAnswers builds one key entry per distinct question id of the
\* rows, whose option map holds every option text of the question mapped to
\* the id of the (last seen) option with that text and whose correct-option
\* text is the text of the (last seen) option flagged correct; with
\* distinct texts and exactly one correct option per question the key is
\* the same for every order of the rows
C28_KeyFollowsRowsLastWins ==
    \A p \in Procs :
        (pc[p] = "BeginTxx") =>
            LET rowset == KeyRows(perguntas, respostas, local[p].quizID)
            IN  /\ \A rows \in Perms(rowset) :
                       KeyFollowsRows(BuildAnswerMap(rows, 1, EmptyMap), rows)
                /\ \E rows \in Perms(rowset) :
                       /\ local[p].answerMap = BuildAnswerMap(rows, 1, EmptyMap)
                       /\ KeyFollowsRows(local[p].answerMap, rows)
                /\ RegularQuiz(local[p].quizID) =>
                       QuizAnswers(perguntas, respostas, local[p].quizID) =
                           {local[p].answerMap}

\* witness of C28: a key was built for a quiz with duplicate texts and
\* several correct options in one question, where the order of the rows
\* shows in the key
C28_Witness ==
    \E p \in Procs :
        /\ pc[p] = "BeginTxx"
        /\ ~RegularQuiz(local[p].quizID)
        /\ Cardinality(DOMAIN local[p].answerMap) >= 2
        /\ Cardinality(QuizAnswers(perguntas, respostas, local[p].quizID)) > 1


\* the answers of a request the loop does not skip
GradedAnswers(p) ==
    SelectSeq(req[p].Answers, LAMBDA a : ~Skipped(local[p].answerMap, a))

\* C29: at the end of the grading loop the number of GivenAnswer drafts is
\* correct_count plus the number of difficulty entries and is at most the
\* number of submitted answers; every graded answer is counted exactly
\* once, as correct or as a difficulty entry
C29_DraftsAreCorrectPlusDifficulties ==
    \A p \in Procs :
        HasGraded(p) =>
            LET g == local[p].grade
            IN  /\ Len(g.respostasDadas) = g.correctCount + Len(g.dificuldades)
                /\ Len(g.respostasDadas) <= Len(req[p].Answers)
                /\ Len(g.respostasDadas) = Len(GradedAnswers(p))
                /\ g.correctCount = Len(SelectSeq(g.respostasDadas, DraftIsCorrect))
                /\ Len(g.dificuldades) = Len(IncorrectDrafts(p))
                /\ \A i \in 1..Len(g.respostasDadas) :
                       DraftIsCorrect(g.respostasDadas[i]) #
                           DraftIsIncorrect(g.respostasDadas[i])

\* witness of C29: a loop that ended with a correct and an incorrect draft
C29_Witness ==
    \E p \in Procs :
        /\ HasGraded(p)
        /\ local[p].grade.correctCount >= 1
        /\ Len(local[p].grade.dificuldades) >= 1
        /\ Len(local[p].grade.respostasDadas) = Len(req[p].Answers)


\* C30 (as stated): an answer is graded correct only if its selected text
\* is the text of a stored option of the question that is flagged correct
\* (so no text, the empty one included, is correct for a question without
\* an option flagged correct), and every answer graded correct has a
\* non-null option id that belongs to the answered question
C30_CorrectOnlyForStoredCorrectOption ==
    \A p \in Procs :
        HasGraded(p) =>
            \A i \in 1..Len(local[p].grade.respostasDadas) :
                LET d == local[p].grade.respostasDadas[i]
                    a == GradedAnswers(p)[i]
                IN  DraftIsCorrect(d) =>
                        /\ \E r \in CorrectOptionsOf(d.PerguntaID) :
                               r.corpo = a.SelectedOption
                        /\ d.RespostaID # {}
                        /\ d.RespostaID \subseteq {r.id : r \in OptionsOf(d.PerguntaID)}

====
